---- MODULE Spec2Model ----
(***************************************************************************)
(* Batch transcription scripts of snigapoe/transcription:                  *)
(*   meeting.py    chunked transcription + summary (Gemini)                *)
(*   gemini.py     one upload per file with "smart wait" (Gemini)          *)
(*   transcribe.py preprocess / split / Whisper with a retry               *)
(* Each script is a sequential program; one behaviour is one run of one    *)
(* script.  The output folder may already hold transcripts written by      *)
(* earlier runs.  The remote service and the external media tools are the  *)
(* environment: every call to them returns one of the outcomes the library *)
(* can produce.                                                            *)
(* Times are integers in milliseconds.  An optional value (Python None)    *)
(* is the empty sequence, a present value x is <<x>>.                      *)
(***************************************************************************)
EXTENDS Integers, Sequences, FiniteSets, TLC

\* ---------------------------------------------------------------- bounds
MaxFiles == 2          \* media files found in the input folder
MaxFilesGemini == 3    \* the same for gemini.py, whose runs are short
MaxPolls == 1          \* status polls that may still answer PROCESSING
MaxClock == 1          \* latest reading of time.time() (s)
MaxEntries == 3        \* files listed in SOURCE_FOLDER of split.py

\* ------------------------------------------------------ program constants
CHUNK_DURATION_MINUTES == 30
SummaryPlaceholderMut == ""                    \* an empty summary on failure
SUMMARY_PLACEHOLDER == "Summary could not be generated."        \* line 132
MAX_BYTES == 25 * 1024 * 1024
SEGMENT_SEC == 300

\* ----------------------------------------------------------- environment
Stems == {"a", "b"}
\* media lengths the probe / decoder may report (ms)
DurationsMs == {0, 1800000, 1800001, 2400000, 3600000, 3600001}
Scripts == {"meeting", "gemini", "transcribe", "compare", "split"}

None == << >>
Some(x) == << x >>
Val(o) == o[1]

VARIABLES
  script,              \* which script this behaviour runs
  pc,                  \* position of the program
  all_files,           \* main: all_files (sequence of stems)
  idx,                 \* main: position of media_path in all_files
  fs,                  \* OUTPUT_FOLDER: path -> content, for existing files
  chunkDir,            \* CHUNK_FOLDER: the chunk files it holds
  remoteFiles,         \* files held by the remote service (handle names)
  duration_sec,        \* probed duration (ms) while it is live, else None
                       \*   (meeting.py duration_sec, gemini.py duration)
  initial_wait_seconds,\* gemini.py transcribe_file: the smart wait (s)
  chunk_paths,         \* main: chunk_paths
  i,                   \* main: loop index of the chunk loop (1-based)
  full_transcript_parts,
  media_file_for_api,  \* transcribe_chunk: None or [name, state]
  exc,                 \* exception in flight: "none", "error", "quota"
  ret,                 \* value transcribe_chunk is about to return
  polls,               \* polls issued in the current polling loop
  clock,               \* last reading of time.time()
  timestamp,           \* transcribe.py process_file: timestamp
  cleaned,             \* transcribe.py: None or [path, base, size]
  chunks,              \* transcribe.py process_file: chunks
  pieces,              \* transcribe.py process_file: pieces
  attempt,             \* transcribe.py process_file: attempt (1, 2)
  \* ---- observation (history) variables
  called,              \* position in all_files -> an external call was
                       \*   made for that item in this run
  reached,             \* position -> None, or Some(content or None) of the
                       \*   primary output when the item was reached
  upHandle,            \* handle name returned by the current upload, or None
  delCalls,            \* names passed to delete_file by the current call
  quotaSeen,           \* ResourceExhausted was raised by an upload, a poll
                       \*   or a generation of this run
  chunkResults,        \* per chunk of the current item: None or Some(text)
  splitCalls,          \* split_audio invocations for the current item
  splitOut,            \* what the last split_audio call exported:
                       \*   sequence of [path, start, end], kept until
                       \*   main takes its next step
  wrote,               \* position -> None or Some(transcript written)
  summaryCalls,        \* position -> summarization calls made
  summaryFailed,       \* position -> the summarization call raised
  sleeps,              \* 60 s rate-limit sleeps for the current item
  tries,               \* transcribe.py: per request sent for the current
                       \*   chunk, [outcome, slept]
  SPLIT_MODE,          \* split.py: the configured SPLIT_MODE
  entries,             \* split.py: SOURCE_FOLDER.iterdir(), each file by
                       \*   what its suffix is: "video", "audio", "other"
  source_type,         \* split.py split_media: None, "video" or "audio"
  effective_mode,      \* split.py split_media: None or the mode
  commands             \* split.py: the ffmpeg segment commands run so far,
                       \*   [task, ok]

vars == << script, pc, clock, timestamp, cleaned, chunks, pieces, attempt, all_files, idx, fs, chunkDir, remoteFiles,
           duration_sec, initial_wait_seconds, chunk_paths, i,
           full_transcript_parts, media_file_for_api, exc, ret, polls, called, reached, upHandle,
           delCalls, quotaSeen, chunkResults, splitCalls, splitOut, wrote,
           summaryCalls, summaryFailed, sleeps, tries, SPLIT_MODE, entries,
           source_type, effective_mode, commands >>

\* ------------------------------------------------------------ file names
MediaPath(stem) == "audio_in/" \o stem
TranscriptPath(stem) == "transcripts/" \o stem \o "_transcript.txt"
SummaryPath(stem) == "transcripts/" \o stem \o "_summary.txt"
OutputPath(stem) == "transcripts/" \o stem \o ".txt"        \* gemini.py
\* transcribe.py: out_txt (83), clean (55), the segment files (70)
OutTxt(base, ts) == "transcripts/" \o base \o "_" \o ToString(ts) \o ".txt"
CleanBase(base, ts) == base \o "_" \o ToString(ts) \o "_clean"
CleanPath(base, ts) == "processing/" \o CleanBase(base, ts) \o ".wav"
SegmentPath(cbase, n) ==
  "processing/" \o cbase \o "_chunks/" \o cbase \o "_00" \o ToString(n) \o ".wav"
\* compare.py: simple_output_path (56), timestamp_output_path (72)
SimplePath(stem) == "transcripts/" \o stem \o ".simple.txt"
TimestampPath(stem) == "transcripts/" \o stem \o ".with_timestamps.txt"
ChunkPath(stem, n) == "temp_chunks/" \o stem \o "_chunk" \o ToString(n) \o ".mp3"

Exists(f, p) == p \in DOMAIN f
WriteFile(f, p, c) == [q \in (DOMAIN f) \cup {p} |-> IF q = p THEN c ELSE f[q]]

\* the output whose existence makes a script skip an item
PrimaryPath(sc, stem) ==
  IF sc = "meeting" THEN TranscriptPath(stem)
  ELSE IF sc = "gemini" THEN OutputPath(stem)
  ELSE OutTxt(stem, 0)
\* content of a transcript left by an earlier run
EARLIER == "(earlier run)"

\* what the service recognises in a given upload
TextOf(path) == "text(" \o path \o ")"

\* "\n\n".join(parts)
RECURSIVE Join(_)
Join(parts) ==
  IF parts = << >> THEN ""
  ELSE IF Len(parts) = 1 THEN parts[1]
  ELSE parts[1] \o "\n\n" \o Join(Tail(parts))

\* math.ceil(a / b) for a >= 0, b > 0
Ceil(a, b) == (a + b - 1) \div b
Min(a, b) == IF a < b THEN a ELSE b

Stem == all_files[idx]
Call == [called EXCEPT ![idx] = TRUE]
\* the service names every upload differently
HandleName == "files/" \o ToString(idx) \o "-" \o ToString(i)

\* -------------------------------------------------------------- start-up
FileLists(sc) ==
  UNION { [1..n -> Stems] :
            n \in 0..(IF sc = "gemini" THEN MaxFilesGemini
                      ELSE IF sc = "split" THEN 0 ELSE MaxFiles) }

\* split.py: what SPLIT_MODE can be set to (line 11), and the listings of
\* SOURCE_FOLDER
SplitModes == {"audio", "video", "both", "vidoe"}
Kinds == {"video", "audio", "other"}
Listings == UNION { [1..n -> Kinds] : n \in 0..MaxEntries }

LocalsInit ==
  /\ idx = 1
  /\ timestamp = 0
  /\ cleaned = None
  /\ chunks = << >>
  /\ pieces = << >>
  /\ attempt = 1
  /\ duration_sec = None
  /\ initial_wait_seconds = 0
  /\ chunk_paths = << >>
  /\ i = 1
  /\ full_transcript_parts = << >>
  /\ media_file_for_api = None
  /\ exc = "none"
  /\ ret = None
  /\ polls = 0
  /\ called = [k \in 1..Len(all_files) |-> FALSE]
  /\ reached = [k \in 1..Len(all_files) |-> None]
  /\ upHandle = None
  /\ delCalls = << >>
  /\ quotaSeen = FALSE
  /\ chunkResults = << >>
  /\ splitCalls = 0
  /\ splitOut = << >>
  /\ wrote = [k \in 1..Len(all_files) |-> None]
  /\ summaryCalls = [k \in 1..Len(all_files) |-> 0]
  /\ summaryFailed = [k \in 1..Len(all_files) |-> FALSE]
  /\ sleeps = 0
  /\ tries = << >>
  /\ source_type = None
  /\ effective_mode = None
  /\ commands = << >>

\* the outputs an earlier run of the script can have left
PriorOutputs(sc) ==
  IF sc = "compare"
    THEN {SimplePath(s) : s \in Stems} \cup {TimestampPath(s) : s \in Stems}
    ELSE IF sc = "split" THEN {}
    ELSE {PrimaryPath(sc, s) : s \in Stems}

InitOf(scripts) ==
  /\ script \in scripts
  /\ all_files \in FileLists(script)
  /\ pc = "start"
  /\ clock = 0
  /\ \E old \in SUBSET PriorOutputs(script) : fs = [p \in old |-> EARLIER]
  /\ chunkDir = {}
  /\ remoteFiles = {}
  /\ IF script = "split"
       THEN SPLIT_MODE \in SplitModes /\ entries \in Listings
       ELSE SPLIT_MODE = "both" /\ entries = << >>
  /\ LocalsInit

Init == InitOf(Scripts)
InitMeeting == InitOf({"meeting"})
InitGemini == InitOf({"gemini"})
InitTranscribe == InitOf({"transcribe"})
InitUpload == InitOf({"meeting", "gemini"})
InitCompare == InitOf({"compare"})
InitSplit == InitOf({"split"})
InitService == InitOf({"meeting", "gemini", "compare"})

\* ======================================================== meeting.py main
splitOnly == << SPLIT_MODE, entries, source_type, effective_mode, commands >>
transcribeOnly == << clock, timestamp, cleaned, chunks, pieces, attempt,
                    tries >>
persistent == << script, all_files, initial_wait_seconds, transcribeOnly,
                splitOnly >>
chunkLocals == << media_file_for_api, exc, ret, polls, upHandle, delCalls >>
itemHist == << reached, wrote, summaryCalls, summaryFailed >>

\* observation: the primary output of an item as it is on disk
Found(f, stem) ==
  IF Exists(f, PrimaryPath(script, stem))
    THEN Some(f[PrimaryPath(script, stem)]) ELSE None

\* `continue` / end of the loop body: advance to the next media_path
NextItem ==
  /\ idx' = idx + 1
  /\ pc' = "m_for"

\* lines 145-151: the file list; an empty list ends the run
MMainStart ==
  /\ pc = "start" /\ script = "meeting"
  /\ pc' = IF all_files = << >> THEN "done" ELSE "m_for"
  /\ UNCHANGED << persistent, idx, fs, chunkDir, remoteFiles, duration_sec,
                  chunk_paths, i, full_transcript_parts, chunkLocals, called,
                  itemHist, quotaSeen, chunkResults, splitCalls, splitOut, sleeps >>

TranscriptExistsMut(f, stem) == FALSE          \* the test left out
\* the existence test of line 157
TranscriptExists(f, stem) == Exists(f, TranscriptPath(stem))

\* lines 152-159: loop head, output paths, skip when the transcript exists
MNextFile ==
  /\ pc = "m_for" /\ script = "meeting"
  /\ IF idx > Len(all_files)
       THEN /\ pc' = "done"
            /\ UNCHANGED << idx, reached >>
       ELSE /\ reached' = [reached EXCEPT ![idx] = Some(Found(fs, Stem))]
            /\ IF TranscriptExists(fs, Stem)
                 THEN NextItem
                 ELSE pc' = "m_probe" /\ idx' = idx
  /\ duration_sec' = None
  /\ chunk_paths' = << >>
  /\ full_transcript_parts' = << >>
  /\ i' = 1
  /\ chunkResults' = << >>
  /\ splitCalls' = 0
  /\ splitOut' = << >>
  /\ sleeps' = 0
  /\ UNCHANGED << persistent, fs, chunkDir, remoteFiles, chunkLocals, called,
                  wrote, summaryCalls, summaryFailed, quotaSeen >>

NeedsSplitMut(d) == d >= CHUNK_DURATION_MINUTES * 60 * 1000     \* >= for >
\* line 167: duration_sec > CHUNK_DURATION_MINUTES * 60
NeedsSplit(d) == d > CHUNK_DURATION_MINUTES * 60 * 1000

\* an unknown duration handled like a short file
MProbeMut ==
  /\ pc = "m_probe" /\ script = "meeting"
  /\ called' = Call
  /\ idx' = idx
  /\ \/ /\ duration_sec' = None
        /\ pc' = "m_chunks"
        /\ chunk_paths' = << MediaPath(Stem) >>
     \/ \E d \in DurationsMs :
          /\ duration_sec' = Some(d)
          /\ IF NeedsSplit(d)
               THEN pc' = "m_split" /\ UNCHANGED chunk_paths
               ELSE pc' = "m_chunks" /\ chunk_paths' = << MediaPath(Stem) >>
  /\ UNCHANGED << persistent, fs, chunkDir, remoteFiles, i,
                  full_transcript_parts, chunkLocals, itemHist, quotaSeen,
                  chunkResults, splitCalls, splitOut, sleeps >>

\* lines 161-170 with get_media_duration_seconds (45-56)
MProbe ==
  /\ pc = "m_probe" /\ script = "meeting"
  /\ called' = Call
  /\ \/ \* ffprobe failed: None, the item is skipped
        /\ duration_sec' = None
        /\ NextItem
        /\ UNCHANGED chunk_paths
     \/ \E d \in DurationsMs :
          /\ duration_sec' = Some(d)
          /\ idx' = idx
          /\ IF NeedsSplit(d)
               THEN pc' = "m_split" /\ UNCHANGED chunk_paths
               ELSE pc' = "m_chunks" /\ chunk_paths' = << MediaPath(Stem) >>
  /\ UNCHANGED << persistent, fs, chunkDir, remoteFiles, i,
                  full_transcript_parts, chunkLocals, itemHist, quotaSeen,
                  chunkResults, splitCalls, splitOut, sleeps >>

\* floor + 1 chunks instead of ceil
SplitRangesMut(D, L) ==
  [n \in 1..((D \div L) + 1) |-> [start |-> (n - 1) * L, end |-> Min(n * L, D)]]
\* the slices audio[start_ms:end_ms] of lines 64-69, for a decoded length D
\* and a chunk length L (both ms); slicing stops at the end of the audio
SplitRanges(D, L) ==
  [n \in 1..Ceil(D, L) |-> [start |-> (n - 1) * L, end |-> Min(n * L, D)]]

\* split_audio (58-77): exports chunk files one by one; any exception
\* (decoding, export) is caught and the function returns []
MSplitAudio ==
  /\ pc = "m_split" /\ script = "meeting"
  /\ called' = Call
  /\ splitCalls' = splitCalls + 1
  /\ LET L == CHUNK_DURATION_MINUTES * 60 * 1000
         ranges == SplitRanges(Val(duration_sec), L)
         n == Len(ranges)
     IN \E written \in 0..n, ok \in BOOLEAN :
          /\ ok <=> (written = n)
          /\ chunkDir' = chunkDir \cup {ChunkPath(Stem, k) : k \in 1..written}
          /\ splitOut' = [k \in 1..written |->
                            [path |-> ChunkPath(Stem, k),
                             start |-> ranges[k].start, end |-> ranges[k].end]]
          /\ chunk_paths' = IF ok THEN [k \in 1..n |-> ChunkPath(Stem, k)]
                                  ELSE << >>
  /\ pc' = "m_chunks"
  /\ UNCHANGED << persistent, idx, fs, remoteFiles, duration_sec, i,
                  full_transcript_parts, chunkLocals, itemHist, quotaSeen,
                  chunkResults, sleeps >>

\* the chunk loop given up after a chunk that returned None
MChunkLoopMut ==
  /\ pc = "m_chunks" /\ script = "meeting"
  /\ pc' = IF \/ i > Len(chunk_paths)
              \/ chunkResults # << >> /\ chunkResults[Len(chunkResults)] = None
             THEN "m_join" ELSE "c_upload"
  /\ media_file_for_api' = None
  /\ exc' = "none"
  /\ ret' = None
  /\ polls' = 0
  /\ upHandle' = None
  /\ delCalls' = << >>
  /\ splitOut' = << >>
  /\ duration_sec' = None
  /\ UNCHANGED << persistent, idx, fs, chunkDir, remoteFiles,
                  chunk_paths, i, full_transcript_parts, called, itemHist,
                  quotaSeen, chunkResults, splitCalls, sleeps >>

\* line 174: the chunk loop; entering transcribe_chunk (79-82)
MChunkLoop ==
  /\ pc = "m_chunks" /\ script = "meeting"
  /\ pc' = IF i > Len(chunk_paths) THEN "m_join" ELSE "c_upload"
  /\ media_file_for_api' = None
  /\ exc' = "none"
  /\ ret' = None
  /\ polls' = 0
  /\ upHandle' = None
  /\ delCalls' = << >>
  /\ splitOut' = << >>
  /\ duration_sec' = None      \* not read again once chunk_paths is built
  /\ UNCHANGED << persistent, idx, fs, chunkDir, remoteFiles,
                  chunk_paths, i, full_transcript_parts, called, itemHist,
                  quotaSeen, chunkResults, splitCalls, sleeps >>

\* ------------------------------------------------ meeting.py transcribe_chunk
FileStates == {"PROCESSING", "ACTIVE", "FAILED"}
Raised == {"error", "quota"}

\* `except Exception` of lines 105-107: every exception, ResourceExhausted
\* included, is logged and turned into the return value None
CCatch(e) ==
  /\ quotaSeen' = (quotaSeen \/ e = "quota")
  /\ ret' = None
  /\ exc' = "none"
  /\ pc' = "c_finally"

mainLocals == << idx, duration_sec, chunk_paths, i, full_transcript_parts >>

\* line 84: genai.upload_file
CUpload ==
  /\ pc = "c_upload" /\ script = "meeting"
  /\ called' = Call
  /\ \/ \E st \in FileStates :
          /\ media_file_for_api' = Some([name |-> HandleName, state |-> st])
          /\ upHandle' = Some(HandleName)
          /\ remoteFiles' = remoteFiles \cup {HandleName}
          /\ pc' = "c_wait"
          /\ UNCHANGED << ret, exc, quotaSeen >>
     \/ \E e \in Raised :
          /\ CCatch(e)
          /\ UNCHANGED << media_file_for_api, upHandle, remoteFiles >>
  /\ UNCHANGED << persistent, mainLocals, fs, chunkDir, polls, delCalls,
                  itemHist, chunkResults, splitCalls, splitOut, sleeps >>

\* lines 87-90: one round of the polling loop, sleep(10) then genai.get_file
CPoll ==
  /\ pc = "c_wait" /\ script = "meeting"
  /\ Val(media_file_for_api).state = "PROCESSING"
  /\ called' = Call
  /\ polls' = polls + 1
  /\ \/ \E st \in FileStates :
          /\ polls < MaxPolls \/ st # "PROCESSING"
          /\ media_file_for_api' =
               Some([name |-> Val(media_file_for_api).name, state |-> st])
          /\ pc' = "c_wait"
          /\ UNCHANGED << ret, exc, quotaSeen >>
     \/ \E e \in Raised :
          /\ CCatch(e)
          /\ UNCHANGED media_file_for_api
  /\ UNCHANGED << persistent, mainLocals, fs, chunkDir, remoteFiles, upHandle,
                  delCalls, itemHist, chunkResults, splitCalls, splitOut, sleeps >>

\* lines 92-95: the loop is left; FAILED raises ValueError
CCheckState ==
  /\ pc = "c_wait" /\ script = "meeting"
  /\ Val(media_file_for_api).state # "PROCESSING"
  /\ IF Val(media_file_for_api).state = "FAILED"
       THEN CCatch("error")
       ELSE pc' = "c_generate" /\ UNCHANGED << ret, exc, quotaSeen >>
  /\ UNCHANGED << persistent, mainLocals, fs, chunkDir, remoteFiles,
                  media_file_for_api, polls, upHandle, delCalls, called,
                  itemHist, chunkResults, splitCalls, splitOut, sleeps >>

\* lines 102-103: model.generate_content and response.text
CGenerate ==
  /\ pc = "c_generate" /\ script = "meeting"
  /\ called' = Call
  /\ \/ \E txt \in {TextOf(chunk_paths[i]), ""} :
          /\ ret' = Some(txt)
          /\ pc' = "c_finally"
          /\ UNCHANGED << exc, quotaSeen >>
     \/ \E e \in Raised : CCatch(e)
  /\ UNCHANGED << persistent, mainLocals, fs, chunkDir, remoteFiles,
                  media_file_for_api, polls, upHandle, delCalls, itemHist,
                  chunkResults, splitCalls, splitOut, sleeps >>

\* cleanup only for a file that became ACTIVE
HasHandleMut(m) == m # None /\ Val(m).state = "ACTIVE"
\* lines 109 / 119: `if media_file_for_api:`
HasHandle(m) == m # None

\* lines 108-111: finally; genai.delete_file may itself raise, and that
\* exception leaves transcribe_chunk and main (caught at 212-215)
CFinally ==
  /\ pc = "c_finally" /\ script = "meeting"
  /\ IF HasHandle(media_file_for_api)
       THEN /\ called' = Call
            /\ delCalls' = Append(delCalls, Val(media_file_for_api).name)
            /\ \/ /\ remoteFiles' = remoteFiles \ {Val(media_file_for_api).name}
                  /\ pc' = "m_part"
                  /\ UNCHANGED quotaSeen
               \/ /\ pc' = "halted"
                  /\ UNCHANGED << remoteFiles, quotaSeen >>
       ELSE /\ pc' = "m_part"
            /\ UNCHANGED << called, delCalls, remoteFiles, quotaSeen >>
  /\ UNCHANGED << persistent, mainLocals, fs, chunkDir, media_file_for_api,
                  exc, ret, polls, upHandle, itemHist, chunkResults,
                  splitCalls, splitOut, sleeps >>

\* ------------------------------------------------- meeting.py main, continued
\* line 176: `if transcript_part:` (None and "" are both dropped)
Truthy(r) == r # None /\ Val(r) # ""

\* insert at the front instead of append
AddPartMut(parts, r) == IF Truthy(r) THEN << Val(r) >> \o parts ELSE parts
\* line 177
AddPart(parts, r) == IF Truthy(r) THEN Append(parts, Val(r)) ELSE parts

\* the 60 s sleep taken only after a chunk that returned a text
MAfterChunkMut ==
  /\ pc = "m_part" /\ script = "meeting"
  /\ full_transcript_parts' = AddPart(full_transcript_parts, ret)
  /\ chunkResults' = Append(chunkResults, ret)
  /\ sleeps' = IF i < Len(chunk_paths) /\ ret # None THEN sleeps + 1 ELSE sleeps
  /\ i' = i + 1
  /\ pc' = "m_chunks"
  /\ UNCHANGED << persistent, idx, fs, chunkDir, remoteFiles, duration_sec,
                  chunk_paths, chunkLocals, called, itemHist, quotaSeen,
                  splitCalls, splitOut >>


\* lines 175-182: the value returned by transcribe_chunk, the rate-limit sleep
MAfterChunk ==
  /\ pc = "m_part" /\ script = "meeting"
  /\ full_transcript_parts' = AddPart(full_transcript_parts, ret)
  /\ chunkResults' = Append(chunkResults, ret)
  /\ sleeps' = IF i < Len(chunk_paths) THEN sleeps + 1 ELSE sleeps
  /\ i' = i + 1
  /\ pc' = "m_chunks"
  /\ UNCHANGED << persistent, idx, fs, chunkDir, remoteFiles, duration_sec,
                  chunk_paths, chunkLocals, called, itemHist, quotaSeen,
                  splitCalls, splitOut >>

NothingTranscribedMut(parts) == FALSE          \* the test left out
\* line 184: `if not full_transcript_parts:`
NothingTranscribed(parts) == parts = << >>

\* lines 184-193: nothing transcribed -> continue; else write the transcript
MJoin ==
  /\ pc = "m_join" /\ script = "meeting"
  /\ IF NothingTranscribed(full_transcript_parts)
       THEN /\ NextItem
            /\ UNCHANGED << fs, wrote >>
       ELSE /\ fs' = WriteFile(fs, TranscriptPath(Stem), Join(full_transcript_parts))
            /\ wrote' = [wrote EXCEPT ![idx] = Some(Join(full_transcript_parts))]
            /\ pc' = "m_summarize"
            /\ idx' = idx
  /\ UNCHANGED << persistent, chunkDir, remoteFiles, duration_sec, chunk_paths,
                  i, full_transcript_parts, chunkLocals, called, reached,
                  summaryCalls, summaryFailed, quotaSeen, chunkResults,
                  splitCalls, splitOut, sleeps >>

SummaryOf(transcript) == "summary(" \o transcript \o ")"

\* lines 196-205 with summarize_transcript (113-132): one generation call,
\* any exception gives the placeholder; then the chunk folder is emptied
MSummarize ==
  /\ pc = "m_summarize" /\ script = "meeting"
  /\ called' = Call
  /\ summaryCalls' = [summaryCalls EXCEPT ![idx] = @ + 1]
  /\ \/ /\ fs' = WriteFile(fs, SummaryPath(Stem),
                           SummaryOf(Join(full_transcript_parts)))
        /\ UNCHANGED summaryFailed
     \/ /\ fs' = WriteFile(fs, SummaryPath(Stem), SUMMARY_PLACEHOLDER)
        /\ summaryFailed' = [summaryFailed EXCEPT ![idx] = TRUE]
  /\ chunkDir' = {}
  /\ NextItem
  /\ UNCHANGED << persistent, remoteFiles, duration_sec, chunk_paths, i,
                  full_transcript_parts, chunkLocals, reached, wrote,
                  quotaSeen, chunkResults, splitCalls, splitOut, sleeps >>

\* ============================================================== gemini.py
meetingOnly == << chunkDir, chunk_paths, i, full_transcript_parts, ret,
                  chunkResults, splitCalls, splitOut, summaryCalls,
                  summaryFailed, sleeps >>

\* lines 133-141: the sorted file list; an empty list ends the run
GMainStart ==
  /\ pc = "start" /\ script = "gemini"
  /\ pc' = IF all_files = << >> THEN "done" ELSE "g_for"
  /\ UNCHANGED << script, all_files, idx, fs, remoteFiles, duration_sec,
                  initial_wait_seconds, media_file_for_api, exc, polls,
                  called, reached, wrote, upHandle, delCalls, quotaSeen,
                  meetingOnly, transcribeOnly, splitOnly >>

\* the existence test of line 54
OutputExists(f, stem) == Exists(f, OutputPath(stem))

\* lines 142-143 and 53-58: next file; transcribe_file returns at once
\* when its output exists
GNextFile ==
  /\ pc = "g_for" /\ script = "gemini"
  /\ IF idx > Len(all_files)
       THEN /\ pc' = "done"
            /\ UNCHANGED << idx, reached >>
       ELSE /\ reached' = [reached EXCEPT ![idx] = Some(Found(fs, Stem))]
            /\ IF OutputExists(fs, Stem)
                 THEN pc' = "g_for" /\ idx' = idx + 1
                 ELSE pc' = "g_probe" /\ idx' = idx
  /\ media_file_for_api' = None
  /\ duration_sec' = None
  /\ initial_wait_seconds' = 0
  /\ exc' = "none"
  /\ polls' = 0
  /\ upHandle' = None
  /\ delCalls' = << >>
  /\ UNCHANGED << script, all_files, fs, remoteFiles, called, wrote,
                  quotaSeen, meetingOnly, transcribeOnly, splitOnly >>

Max(a, b) == IF a > b THEN a ELSE b

\* lines 64-72: `if duration:` is false for None and for 0.0;
\* int(duration * 0.10) with duration in seconds, d in ms
SmartWait(d) ==
  IF d # None /\ Val(d) # 0 THEN Max(30, Val(d) \div 10000) ELSE 360

\* lines 63-72 with get_media_duration_seconds (36-47)
GProbe ==
  /\ pc = "g_probe" /\ script = "gemini"
  /\ called' = Call
  /\ \E d \in {None} \cup {Some(x) : x \in DurationsMs} :
       /\ duration_sec' = d
       /\ initial_wait_seconds' = SmartWait(d)
  /\ pc' = "g_upload"
  /\ UNCHANGED << script, all_files, idx, fs, remoteFiles,
                  media_file_for_api, exc, polls, reached, wrote, upHandle,
                  delCalls, quotaSeen, meetingOnly, transcribeOnly, splitOnly >>

\* quota exhaustion handled like any other exception
GCatchMut(e) ==
  /\ quotaSeen' = (quotaSeen \/ e = "quota")
  /\ exc' = "none"
  /\ pc' = "g_finally"
\* lines 113-117: ResourceExhausted is turned into SystemExit, which stays
\* in flight through the finally block; any other exception is only logged
GCatch(e) ==
  /\ quotaSeen' = (quotaSeen \/ e = "quota")
  /\ exc' = IF e = "quota" THEN "quota" ELSE "none"
  /\ pc' = "g_finally"

gFrame == << script, all_files, idx, duration_sec, initial_wait_seconds,
             reached, meetingOnly, transcribeOnly, splitOnly >>

\* lines 74-76: genai.upload_file, then the smart wait
GUpload ==
  /\ pc = "g_upload" /\ script = "gemini"
  /\ called' = Call
  /\ \/ \E st \in FileStates :
          /\ media_file_for_api' = Some([name |-> HandleName, state |-> st])
          /\ upHandle' = Some(HandleName)
          /\ remoteFiles' = remoteFiles \cup {HandleName}
          /\ pc' = "g_wait"
          /\ UNCHANGED << exc, quotaSeen >>
     \/ \E e \in Raised :
          /\ GCatch(e)
          /\ UNCHANGED << media_file_for_api, upHandle, remoteFiles >>
  /\ UNCHANGED << gFrame, fs, polls, delCalls, wrote >>

\* lines 79-82: one round of the polling loop, sleep(60) then genai.get_file
GPoll ==
  /\ pc = "g_wait" /\ script = "gemini"
  /\ Val(media_file_for_api).state = "PROCESSING"
  /\ called' = Call
  /\ polls' = polls + 1
  /\ \/ \E st \in FileStates :
          /\ polls < MaxPolls \/ st # "PROCESSING"
          /\ media_file_for_api' =
               Some([name |-> Val(media_file_for_api).name, state |-> st])
          /\ pc' = "g_wait"
          /\ UNCHANGED << exc, quotaSeen >>
     \/ \E e \in Raised :
          /\ GCatch(e)
          /\ UNCHANGED media_file_for_api
  /\ UNCHANGED << gFrame, fs, remoteFiles, upHandle, delCalls, wrote >>

\* the ValueError of a FAILED file leaves transcribe_file
GCheckStateMut ==
  /\ pc = "g_wait" /\ script = "gemini"
  /\ Val(media_file_for_api).state # "PROCESSING"
  /\ pc' = IF Val(media_file_for_api).state = "FAILED"
             THEN "halted" ELSE "g_generate"
  /\ UNCHANGED << exc, quotaSeen >>
  /\ UNCHANGED << gFrame, fs, remoteFiles, media_file_for_api, polls,
                  upHandle, delCalls, called, wrote >>

\* lines 85-88: the loop is left; FAILED raises ValueError
GCheckState ==
  /\ pc = "g_wait" /\ script = "gemini"
  /\ Val(media_file_for_api).state # "PROCESSING"
  /\ IF Val(media_file_for_api).state = "FAILED"
       THEN GCatch("error")
       ELSE pc' = "g_generate" /\ UNCHANGED << exc, quotaSeen >>
  /\ UNCHANGED << gFrame, fs, remoteFiles, media_file_for_api, polls,
                  upHandle, delCalls, called, wrote >>

\* lines 99-111: generate_content; a response without parts raises
\* ValueError, otherwise response.text is written to output_path
GGenerate ==
  /\ pc = "g_generate" /\ script = "gemini"
  /\ called' = Call
  /\ \/ /\ fs' = WriteFile(fs, OutputPath(Stem), TextOf(MediaPath(Stem)))
        /\ wrote' = [wrote EXCEPT ![idx] = Some(TextOf(MediaPath(Stem)))]
        /\ pc' = "g_finally"
        /\ UNCHANGED << exc, quotaSeen >>
     \/ \* empty response.parts
        /\ GCatch("error")
        /\ UNCHANGED << fs, wrote >>
     \/ \* lines 108-109: open() made the file, f.write(response.text) raised
        /\ fs' = WriteFile(fs, OutputPath(Stem), "")
        /\ wrote' = [wrote EXCEPT ![idx] = Some("")]
        /\ GCatch("error")
     \/ \E e \in Raised :
          /\ GCatch(e)
          /\ UNCHANGED << fs, wrote >>
  /\ UNCHANGED << gFrame, remoteFiles, media_file_for_api, polls, upHandle,
                  delCalls >>

\* lines 118-124: finally; then SystemExit (or an exception of delete_file)
\* leaves main_workflow, otherwise transcribe_file returns
GFinally ==
  /\ pc = "g_finally" /\ script = "gemini"
  /\ IF HasHandle(media_file_for_api)
       THEN /\ called' = Call
            /\ delCalls' = Append(delCalls, Val(media_file_for_api).name)
            /\ \/ /\ remoteFiles' = remoteFiles \ {Val(media_file_for_api).name}
                  /\ pc' = IF exc = "quota" THEN "halted" ELSE "g_for"
                  /\ UNCHANGED quotaSeen
               \/ /\ pc' = "halted"
                  /\ UNCHANGED << remoteFiles, quotaSeen >>
       ELSE /\ pc' = IF exc = "quota" THEN "halted" ELSE "g_for"
            /\ UNCHANGED << called, delCalls, remoteFiles, quotaSeen >>
  /\ idx' = IF pc' = "g_for" THEN idx + 1 ELSE idx
  /\ UNCHANGED << script, all_files, duration_sec, initial_wait_seconds,
                  reached, meetingOnly, transcribeOnly, splitOnly, fs,
                  media_file_for_api, exc, polls, upHandle, wrote >>

Gemini ==
  \/ GMainStart \/ GNextFile \/ GProbe \/ GUpload \/ GPoll \/ GCheckState
  \/ GGenerate \/ GFinally

\* ========================================================== transcribe.py
geminiOnly == << remoteFiles, duration_sec, initial_wait_seconds,
                 media_file_for_api, exc, polls, upHandle, delCalls,
                 quotaSeen >>
tFrame == << script, all_files, splitOnly, geminiOnly, chunkDir, chunk_paths,
             full_transcript_parts, ret, splitCalls, splitOut, summaryCalls,
             summaryFailed, sleeps >>

\* lines 120-131: the file list; an empty list ends the run
TMainStart ==
  /\ pc = "start" /\ script = "transcribe"
  /\ pc' = IF all_files = << >> THEN "done" ELSE "t_for"
  /\ UNCHANGED << tFrame, transcribeOnly, idx, fs, i, called, reached, wrote,
                  chunkResults >>

\* lines 133-134 and 80-87: next file; process_file reads the time and
\* waits for the file size to settle (a timeout returns)
TNextFile ==
  /\ pc = "t_for" /\ script = "transcribe"
  /\ IF idx > Len(all_files)
       THEN /\ pc' = "done"
            /\ UNCHANGED << idx, clock, timestamp, reached >>
       ELSE /\ \E t \in clock..MaxClock : clock' = t /\ timestamp' = t
            /\ reached' = [reached EXCEPT ![idx] =
                 Some(IF Exists(fs, OutTxt(Stem, timestamp'))
                        THEN Some(fs[OutTxt(Stem, timestamp')]) ELSE None)]
            /\ \/ pc' = "t_for" /\ idx' = idx + 1
               \/ pc' = "t_preprocess" /\ idx' = idx
  /\ cleaned' = None
  /\ chunks' = << >>
  /\ pieces' = << >>
  /\ attempt' = 1
  /\ i' = 1
  /\ chunkResults' = << >>
  /\ tries' = << >>
  /\ UNCHANGED << tFrame, fs, called, wrote >>

\* bytes of one second of the mono 16 kHz 16-bit WAV made by preprocess_audio
WAV_BYTES_PER_SEC == 32000
CleanedSizes == {MAX_BYTES, MAX_BYTES + 1}

\* lines 89-91 with preprocess_audio (51-63): ffmpeg (check=True) either
\* writes the clean WAV or raises CalledProcessError, which nothing catches
TPreprocess ==
  /\ pc = "t_preprocess" /\ script = "transcribe"
  /\ called' = Call
  /\ \/ \E t \in clock..MaxClock, size \in CleanedSizes :
          /\ clock' = t
          /\ cleaned' = Some([path |-> CleanPath(Stem, t),
                              base |-> CleanBase(Stem, t), size |-> size])
          /\ IF size > MAX_BYTES
               THEN pc' = "t_split" /\ UNCHANGED chunks
               ELSE pc' = "t_chunks" /\ chunks' = << CleanPath(Stem, t) >>
     \/ /\ pc' = "halted"
        /\ UNCHANGED << clock, cleaned, chunks >>
  /\ UNCHANGED << tFrame, timestamp, pieces, attempt, idx, fs, i, reached,
                  wrote, chunkResults, tries >>

\* number of SEGMENT_SEC segments of a WAV of the given size
SegmentCount(size) == Ceil(size, WAV_BYTES_PER_SEC * SEGMENT_SEC)

\* line 92 with split_audio (65-77): ffmpeg segment, then the sorted glob
TSplit ==
  /\ pc = "t_split" /\ script = "transcribe"
  /\ called' = Call
  /\ \/ /\ chunks' = [n \in 1..SegmentCount(Val(cleaned).size) |->
                        SegmentPath(Val(cleaned).base, n - 1)]
        /\ pc' = "t_chunks"
     \/ /\ pc' = "halted"
        /\ UNCHANGED chunks
  /\ UNCHANGED << tFrame, clock, timestamp, cleaned, pieces, attempt, idx, fs,
                  i, reached, wrote, chunkResults, tries >>

\* line 95: the chunk loop
TChunkLoop ==
  /\ pc = "t_chunks" /\ script = "transcribe"
  /\ pc' = IF i > Len(chunks) THEN "t_write" ELSE "t_try"
  /\ attempt' = 1
  /\ tries' = << >>
  /\ UNCHANGED << tFrame, clock, timestamp, cleaned, chunks, pieces, idx, fs,
                  i, called, reached, wrote, chunkResults >>

\* a response of the transcription API: a sequence of tokens
Blank == {" ", "\n"}
Responses(seg) == { << " ", TextOf(seg), "\n" >>, << TextOf(seg) >> }

\* str.strip() of line 105
RECURSIVE LStrip(_)
LStrip(t) == IF t # << >> /\ Head(t) \in Blank THEN LStrip(Tail(t)) ELSE t
RECURSIVE RStrip(_)
RStrip(t) ==
  IF t # << >> /\ t[Len(t)] \in Blank THEN RStrip(SubSeq(t, 1, Len(t) - 1))
  ELSE t
RECURSIVE Flatten(_)
Flatten(t) == IF t = << >> THEN "" ELSE Head(t) \o Flatten(Tail(t))
Strip(t) == Flatten(RStrip(LStrip(t)))

\* what one request of lines 100-105 came to, and whether time.sleep(1)
\* of line 110 followed
Tried(outcome, slept) == [outcome |-> outcome, slept |-> slept]

\* every exception retried once, without the sleep
TAttemptMut ==
  /\ pc = "t_try" /\ script = "transcribe"
  /\ called' = Call
  /\ \/ \E r \in Responses(chunks[i]) :
          /\ pieces' = Append(pieces, Strip(r))
          /\ chunkResults' = Append(chunkResults, Some(Strip(r)))
          /\ tries' = Append(tries, Tried("text", FALSE))
          /\ i' = i + 1
          /\ pc' = "t_chunks"
          /\ UNCHANGED attempt
     \/ \E o \in {"transport", "other"} :
          /\ tries' = Append(tries, Tried(o, FALSE))
          /\ IF attempt < 2
               THEN /\ attempt' = attempt + 1
                    /\ pc' = "t_try"
                    /\ UNCHANGED << i, chunkResults >>
               ELSE /\ chunkResults' = Append(chunkResults, None)
                    /\ i' = i + 1
                    /\ pc' = "t_chunks"
                    /\ UNCHANGED attempt
          /\ UNCHANGED pieces
  /\ UNCHANGED << tFrame, clock, timestamp, cleaned, chunks, idx, fs, reached,
                  wrote >>

\* lines 96-113: one attempt for chunk i.  A text ends the attempts, a
\* LocalProtocolError sleeps 1 s and lets the second attempt run, any other
\* exception gives the chunk up
TAttempt ==
  /\ pc = "t_try" /\ script = "transcribe"
  /\ called' = Call
  /\ \/ \E r \in Responses(chunks[i]) :
          /\ pieces' = Append(pieces, Strip(r))
          /\ chunkResults' = Append(chunkResults, Some(Strip(r)))
          /\ tries' = Append(tries, Tried("text", FALSE))
          /\ i' = i + 1
          /\ pc' = "t_chunks"
          /\ UNCHANGED attempt
     \/ \* LocalProtocolError: warning, time.sleep(1)
        /\ tries' = Append(tries, Tried("transport", TRUE))
        /\ IF attempt < 2
             THEN /\ attempt' = attempt + 1
                  /\ pc' = "t_try"
                  /\ UNCHANGED << i, chunkResults >>
             ELSE /\ chunkResults' = Append(chunkResults, None)
                  /\ i' = i + 1
                  /\ pc' = "t_chunks"
                  /\ UNCHANGED attempt
        /\ UNCHANGED pieces
     \/ \* any other exception
        /\ tries' = Append(tries, Tried("other", FALSE))
        /\ chunkResults' = Append(chunkResults, None)
        /\ i' = i + 1
        /\ pc' = "t_chunks"
        /\ UNCHANGED << pieces, attempt >>
  /\ UNCHANGED << tFrame, clock, timestamp, cleaned, chunks, idx, fs, reached,
                  wrote >>

\* line 116: "\n\n".join(pieces) + "\n"
OutText(ps) == Join(ps) \o "\n"

\* lines 115-117: the transcript is written, whatever pieces holds
TWrite ==
  /\ pc = "t_write" /\ script = "transcribe"
  /\ fs' = WriteFile(fs, OutTxt(Stem, timestamp), OutText(pieces))
  /\ wrote' = [wrote EXCEPT ![idx] = Some(OutText(pieces))]
  /\ idx' = idx + 1
  /\ pc' = "t_for"
  /\ UNCHANGED << tFrame, transcribeOnly, i, called, reached, chunkResults >>

Transcribe ==
  \/ TMainStart \/ TNextFile \/ TPreprocess \/ TSplit \/ TChunkLoop
  \/ TAttempt \/ TWrite

\* ================================================ compare.py run_comparison
kFrame == << script, all_files, idx, duration_sec, initial_wait_seconds, exc,
             reached, wrote, delCalls, quotaSeen, meetingOnly,
             transcribeOnly, splitOnly >>

\* lines 30-44: the directory listing; without a file the run returns,
\* otherwise media_files[0] is taken
KStart ==
  /\ pc = "start" /\ script = "compare"
  /\ pc' = IF all_files = << >> THEN "done" ELSE "k_upload"
  /\ UNCHANGED << kFrame, fs, remoteFiles, media_file_for_api, polls, called,
                  upHandle >>

\* line 49 with upload_file_to_gemini 81-83: genai.upload_file; an
\* exception is caught at 96-98, None is returned and run_comparison
\* returns at 50-51
KUpload ==
  /\ pc = "k_upload" /\ script = "compare"
  /\ called' = Call
  /\ \/ \E st \in FileStates :
          /\ media_file_for_api' = Some([name |-> HandleName, state |-> st])
          /\ upHandle' = Some(HandleName)
          /\ remoteFiles' = remoteFiles \cup {HandleName}
          /\ pc' = "k_wait"
     \/ /\ pc' = "done"
        /\ UNCHANGED << media_file_for_api, upHandle, remoteFiles >>
  /\ UNCHANGED << kFrame, fs, polls >>

\* lines 85-88: one round of the polling loop, sleep(10) then
\* genai.get_file; an exception returns None (96-98, 50-51)
KPoll ==
  /\ pc = "k_wait" /\ script = "compare"
  /\ Val(media_file_for_api).state = "PROCESSING"
  /\ called' = Call
  /\ polls' = polls + 1
  /\ \/ \E st \in FileStates :
          /\ polls < MaxPolls \/ st # "PROCESSING"
          /\ media_file_for_api' =
               Some([name |-> Val(media_file_for_api).name, state |-> st])
          /\ pc' = "k_wait"
     \/ /\ media_file_for_api' = None
        /\ pc' = "done"
  /\ UNCHANGED << kFrame, fs, remoteFiles, upHandle >>

\* the file is generated from although its processing failed
KCheckStateMut ==
  /\ pc = "k_wait" /\ script = "compare"
  /\ Val(media_file_for_api).state # "PROCESSING"
  /\ pc' = "k_simple"
  /\ UNCHANGED << kFrame, fs, remoteFiles, media_file_for_api, polls, called,
                  upHandle >>

\* lines 90-95 and 50-51: the loop is left; FAILED returns None and ends
\* the run, otherwise run_comparison holds the file
KCheckState ==
  /\ pc = "k_wait" /\ script = "compare"
  /\ Val(media_file_for_api).state # "PROCESSING"
  /\ IF Val(media_file_for_api).state = "FAILED"
       THEN pc' = "done" /\ media_file_for_api' = None
       ELSE pc' = "k_simple" /\ UNCHANGED media_file_for_api
  /\ UNCHANGED << kFrame, fs, remoteFiles, polls, called, upHandle >>

\* the simple prompt of line 55 is a string without the uploaded file
PROMPT_ONLY == "(prompt)"

\* generate_transcription (101-117): nothing is done when output_path
\* exists; otherwise generate_content is called and response.text written;
\* an exception of the call, or of the write after open() made the file,
\* is caught and printed
GenerateTranscription(input, output_path) ==
  IF Exists(fs, output_path)
    THEN UNCHANGED << fs, called >>
    ELSE /\ called' = Call
         /\ \/ fs' = WriteFile(fs, output_path, TextOf(input))
            \/ fs' = WriteFile(fs, output_path, "")
            \/ UNCHANGED fs

\* lines 54-57: the simple prompt
KSimple ==
  /\ pc = "k_simple" /\ script = "compare"
  /\ GenerateTranscription(PROMPT_ONLY, SimplePath(Stem))
  /\ pc' = "k_detailed"
  /\ UNCHANGED << kFrame, remoteFiles, media_file_for_api, polls, upHandle >>

\* lines 59-76: the detailed prompt with the uploaded file; then
\* run_comparison returns
KDetailed ==
  /\ pc = "k_detailed" /\ script = "compare"
  /\ GenerateTranscription(MediaPath(Stem), TimestampPath(Stem))
  /\ pc' = "done"
  /\ UNCHANGED << kFrame, remoteFiles, media_file_for_api, polls, upHandle >>

Compare ==
  \/ KStart \/ KUpload \/ KPoll \/ KCheckState \/ KSimple \/ KDetailed

\* ===================================================== split.py split_media
sFrame == << script, all_files, idx, fs, chunkDir, remoteFiles,
             initial_wait_seconds, duration_sec, media_file_for_api, exc,
             polls, called, reached, wrote, upHandle, delCalls, quotaSeen,
             meetingOnly, transcribeOnly, SPLIT_MODE, entries >>

\* lines 34-42: the folders are made; an invalid SPLIT_MODE returns
SSetup ==
  /\ pc = "start" /\ script = "split"
  /\ pc' = IF SPLIT_MODE \notin {"audio", "video", "both"}
             THEN "done" ELSE "s_find"
  /\ UNCHANGED << sFrame, source_type, effective_mode, commands >>

\* lines 54-63: the type of the first listed file with a supported suffix
RECURSIVE FirstSupported(_)
FirstSupported(es) ==
  IF es = << >> THEN None
  ELSE IF Head(es) \in {"video", "audio"} THEN Some(Head(es))
  ELSE FirstSupported(Tail(es))

\* lines 46-68: file discovery; without a supported file the run returns
SFind ==
  /\ pc = "s_find" /\ script = "split"
  /\ source_type' = FirstSupported(entries)
  /\ pc' = IF source_type' = None THEN "done" ELSE "s_mode"
  /\ UNCHANGED << sFrame, effective_mode, commands >>

\* lines 73-83: an audio source with SPLIT_MODE 'video' returns; any other
\* audio source is treated as mode 'audio'
SMode ==
  /\ pc = "s_mode" /\ script = "split"
  /\ IF source_type = Some("audio")
       THEN IF SPLIT_MODE = "video"
              THEN pc' = "done" /\ effective_mode' = Some(SPLIT_MODE)
              ELSE pc' = "s_video" /\ effective_mode' = Some("audio")
       ELSE pc' = "s_video" /\ effective_mode' = Some(SPLIT_MODE)
  /\ UNCHANGED << sFrame, source_type, commands >>

\* subprocess.run of lines 96 and 113: ffmpeg ends well, or
\* CalledProcessError / FileNotFoundError is caught and printed
RunSegment(task) ==
  \E ok \in BOOLEAN : commands' = Append(commands, [task |-> task, ok |-> ok])

\* a failed video split ends the run
SVideoMut ==
  /\ pc = "s_video" /\ script = "split"
  /\ IF source_type = Some("video") /\ Val(effective_mode) \in {"video", "both"}
       THEN /\ RunSegment("video")
            /\ pc' = IF commands'[Len(commands')].ok THEN "s_audio" ELSE "done"
       ELSE /\ UNCHANGED commands
            /\ pc' = "s_audio"
  /\ UNCHANGED << sFrame, source_type, effective_mode >>

\* lines 86-102: task 1, the video split
SVideo ==
  /\ pc = "s_video" /\ script = "split"
  /\ IF source_type = Some("video") /\ Val(effective_mode) \in {"video", "both"}
       THEN RunSegment("video")
       ELSE UNCHANGED commands
  /\ pc' = "s_audio"
  /\ UNCHANGED << sFrame, source_type, effective_mode >>

\* lines 105-123: task 2, the audio split; then split_media returns
SAudio ==
  /\ pc = "s_audio" /\ script = "split"
  /\ IF Val(effective_mode) \in {"audio", "both"}
       THEN RunSegment("audio")
       ELSE UNCHANGED commands
  /\ pc' = "done"
  /\ UNCHANGED << sFrame, source_type, effective_mode >>

Split == SSetup \/ SFind \/ SMode \/ SVideo \/ SAudio

Meeting ==
  \/ MMainStart \/ MNextFile \/ MProbe \/ MSplitAudio \/ MChunkLoop
  \/ CUpload \/ CPoll \/ CCheckState \/ CGenerate \/ CFinally
  \/ MAfterChunk \/ MJoin \/ MSummarize

Next == Meeting \/ Gemini \/ Transcribe \/ Compare \/ Split

Spec == Init /\ [][Next]_vars

\* one script at a time
SpecMeeting == InitMeeting /\ [][Meeting]_vars
\* meeting.py is one sequential process: whenever it has a next step, it
\* takes it (every external call returns, the polled file leaves
\* PROCESSING within MaxPolls polls)
FairMeeting == SpecMeeting /\ WF_vars(Meeting)
SpecGemini == InitGemini /\ [][Gemini]_vars
SpecTranscribe == InitTranscribe /\ [][Transcribe]_vars
\* the two scripts that delete what they uploaded
Upload == Meeting \/ Gemini
SpecUpload == InitUpload /\ [][Upload]_vars
SpecCompare == InitCompare /\ [][Compare]_vars
SpecSplit == InitSplit /\ [][Split]_vars
\* the three scripts that upload to the Gemini file service
Service == Meeting \/ Gemini \/ Compare
SpecService == InitService /\ [][Service]_vars

TypeOK ==
  /\ idx \in 1..(Len(all_files) + 1)
  /\ Len(delCalls) <= 1

\* ================================================================= claims
Positions == 1..Len(all_files)
Skipped(k) == reached[k] # None /\ Val(reached[k]) # None
InCall == {"c_upload", "c_wait", "c_generate", "c_finally",
           "g_probe", "g_upload", "g_wait", "g_generate", "g_finally"}

\* C1: an item whose primary output exists when it is reached gets no
\* external call (probe, split, upload, poll, generation, delete) in this
\* run, nothing is written for it, and the output keeps its content.
C1_SkipExistingOutput ==
  \A k \in Positions :
    Skipped(k) =>
      /\ ~called[k]
      /\ wrote[k] = None
      /\ Found(fs, all_files[k]) = Val(reached[k])

\* a finished run that skipped one item and worked on another
C1_Witness ==
  /\ pc = "done"
  /\ \E k \in Positions : Skipped(k)
  /\ \E k \in Positions : called[k]

\* C2: inside transcribe_chunk / transcribe_file nothing is deleted before
\* the finally block; when the function has been left, delete_file was
\* called exactly once, on the handle the upload returned, if the upload
\* returned one, and not at all if the upload raised.
C2_DeleteExactlyOnce ==
  /\ media_file_for_api # None => upHandle = Some(Val(media_file_for_api).name)
  /\ pc \in InCall \ {"c_finally", "g_finally"} => delCalls = << >>
  /\ pc \notin InCall =>
       delCalls = (IF upHandle = None THEN << >> ELSE << Val(upHandle) >>)

\* gemini.py stopped by quota exhaustion after a successful upload, the
\* upload deleted
C2_Witness ==
  /\ script = "gemini" /\ pc = "halted" /\ quotaSeen
  /\ upHandle # None /\ delCalls = << Val(upHandle) >>
  /\ remoteFiles = {}

\* C3: in meeting.py, once ResourceExhausted was raised by an upload, a
\* poll or a generation, no further upload and no further transcription
\* request is issued in the run.
C3_QuotaHaltsRun == [][quotaSeen => ~(CUpload \/ CGenerate)]_vars

\* C4: in gemini.py, once ResourceExhausted was raised by an upload, a poll
\* or a generation, the workflow only runs the cleanup and stops: it never
\* moves to another file, issues no upload, poll or generation, and leaves
\* every file of the output folder as it is.
C4_QuotaStopsWorkflow ==
  /\ [](quotaSeen => pc \in {"g_finally", "halted"})
  /\ [][quotaSeen => /\ ~(GNextFile \/ GUpload \/ GPoll \/ GGenerate)
                     /\ idx' = idx
                     /\ fs' = fs]_vars

\* the second of three files hit the quota: the first transcript is on
\* disk as written, the third file was never touched
C4_Witness ==
  /\ script = "gemini" /\ pc = "halted" /\ quotaSeen
  /\ Len(all_files) = 3 /\ idx = 2
  /\ wrote[1] # None
  /\ Found(fs, all_files[1]) = wrote[1]
  /\ reached[3] = None /\ ~called[3]

\* no chunk of the current item returned a text
NoChunkText ==
  \A j \in 1..Len(chunkResults) :
    chunkResults[j] = None \/ Val(chunkResults[j]) = ""

\* C5: in meeting.py main, when the chunk loop ends and no chunk returned
\* a text (the chunk list was empty, or every transcribe_chunk failed),
\* the step that follows writes no file, makes no summarization call and
\* moves on to the next item.
C5_TotalFailureWritesNothing ==
  [][(pc = "m_join" /\ NoChunkText) =>
       /\ fs' = fs
       /\ wrote' = wrote
       /\ summaryCalls' = summaryCalls
       /\ called' = called
       /\ pc' = "m_for" /\ idx' = idx + 1]_vars

\* the first item was split in two chunks, both failed, and the driver is at
\* the next item with nothing written for the first
C5_Witness ==
  /\ script = "meeting" /\ pc = "m_for" /\ idx = 2
  /\ Len(chunkResults) = 2 /\ NoChunkText
  /\ wrote[1] = None /\ summaryCalls[1] = 0
  /\ Found(fs, all_files[1]) = None

\* C6: in transcribe.py process_file, when no chunk yielded a piece, the
\* step after the chunk loop writes no output file.
C6_NoOutputOnTotalFailure ==
  [][(pc = "t_write" /\ \A j \in 1..Len(chunkResults) : chunkResults[j] = None)
       => fs' = fs]_vars

\* C7: in meeting.py main, a probed duration of at most 30 minutes makes
\* the chunk list the original media path alone, without a call of
\* split_audio; as long as split_audio was not called for the item, no file
\* is added to the chunk folder.
C7_ShortItemIsNotSplit ==
  /\ [][(pc = "m_probe" /\ duration_sec' # None
                        /\ Val(duration_sec') <= 30 * 60 * 1000) =>
          /\ chunk_paths' = << MediaPath(Stem) >>
          /\ pc' = "m_chunks"
          /\ splitCalls' = 0
          /\ chunkDir' = chunkDir]_vars
  /\ [](chunk_paths \in {<< MediaPath(st) >> : st \in Stems} => splitCalls = 0)
  /\ [][splitCalls' = 0 => chunkDir' \subseteq chunkDir]_vars

\* an item of exactly 30 minutes: one chunk, the original file, no split
C7_Witness ==
  /\ script = "meeting" /\ pc = "m_chunks"
  /\ duration_sec = Some(30 * 60 * 1000)
  /\ chunk_paths = << MediaPath(Stem) >>
  /\ splitCalls = 0 /\ chunkDir = {}

\* C8: split_audio, for a length D > L: ceil(D / L) chunks; chunk n covers
\* [(n-1) L, min(n L, D)); the ranges follow one another from 0 to D, all
\* but the last have length L, the last has a length in (0, L]; the files
\* are <stem>_chunk<n>.mp3 in ascending order.
C8_SplitCoversDuration ==
  (script = "meeting" /\ pc = "m_chunks" /\ splitCalls = 1
     /\ duration_sec # None /\ chunk_paths # << >>) =>
    LET D == Val(duration_sec)
        L == 30 * 60 * 1000
        n == Len(chunk_paths)
    IN /\ D > L
       /\ (n - 1) * L < D /\ D <= n * L
       /\ Len(splitOut) = n
       /\ splitOut[1].start = 0
       /\ splitOut[n].end = D
       /\ \A k \in 1..n :
            /\ splitOut[k].start = (k - 1) * L
            /\ splitOut[k].end = (IF k * L < D THEN k * L ELSE D)
            /\ splitOut[k].end - splitOut[k].start > 0
            /\ splitOut[k].end - splitOut[k].start <= L
            /\ k < n => /\ splitOut[k].end - splitOut[k].start = L
                        /\ splitOut[k].end = splitOut[k + 1].start
            /\ splitOut[k].path = chunk_paths[k]
            /\ chunk_paths[k] = "temp_chunks/" \o Stem \o "_chunk"
                                  \o ToString(k) \o ".mp3"

\* a source of exactly two chunk lengths, split in two full chunks
C8_Witness ==
  /\ script = "meeting" /\ pc = "m_chunks" /\ splitCalls = 1
  /\ duration_sec = Some(2 * 30 * 60 * 1000)
  /\ Len(chunk_paths) = 2
  /\ splitOut[2].end - splitOut[2].start = 30 * 60 * 1000

\* the successful texts of a list of chunk results, in order, with a blank
\* line between two of them
RECURSIVE BlankLineJoin(_, _)
BlankLineJoin(results, acc) ==
  IF results = << >> THEN acc
  ELSE LET r == Head(results)
           ok == r # None /\ Val(r) # ""
       IN BlankLineJoin(Tail(results),
            IF ~ok THEN acc
            ELSE IF acc = "" THEN Val(r) ELSE acc \o "\n\n" \o Val(r))

\* C9: when meeting.py has written the transcript of an item, the file
\* holds the texts of the chunks that returned one, in chunk order, joined
\* by a blank line; every chunk of the item was tried once.
C9_TranscriptJoinsChunksInOrder ==
  (script = "meeting" /\ pc = "m_summarize") =>
    /\ Len(chunkResults) = Len(chunk_paths)
    /\ \A j \in 1..Len(chunkResults) :
         chunkResults[j] \in {None, Some(""), Some(TextOf(chunk_paths[j]))}
    /\ Found(fs, Stem) = Some(BlankLineJoin(chunkResults, ""))
    /\ wrote[idx] = Found(fs, Stem)

\* three chunks, the middle one failed: first text, blank line, third text
C9_Witness ==
  /\ script = "meeting" /\ pc = "m_summarize"
  /\ Len(chunk_paths) = 3
  /\ chunkResults[2] = None
  /\ fs[TranscriptPath(Stem)] =
       TextOf(ChunkPath(Stem, 1)) \o "\n\n" \o TextOf(ChunkPath(Stem, 3))

\* C10: in meeting.py a summarization call is made only for an item whose
\* transcript is on disk, at most once; when the driver has left the item,
\* exactly once.  If the call failed, the summary file holds
\* 'Summary could not be generated.'.  The transcript stays as written and
\* the step after the call moves on to the next item.
C10_OneSummaryPerTranscript ==
  /\ [](script = "meeting" =>
        \A k \in Positions :
          /\ summaryCalls[k] <= 1
          /\ summaryCalls[k] = 1 => wrote[k] # None
          /\ wrote[k] # None =>
               /\ Found(fs, all_files[k]) = wrote[k]
               /\ k < idx => /\ summaryCalls[k] = 1
                             /\ Exists(fs, SummaryPath(all_files[k]))
          /\ summaryFailed[k] =>
               /\ summaryCalls[k] = 1
               /\ fs[SummaryPath(all_files[k])] = "Summary could not be generated.")
  /\ [][pc = "m_summarize" =>
          /\ pc' = "m_for" /\ idx' = idx + 1
          /\ summaryCalls'[idx] = 1
          /\ Found(fs', Stem) = Found(fs, Stem)]_vars

\* the summary of the first item failed; the driver is at the second item
C10_Witness ==
  /\ script = "meeting" /\ pc = "m_for" /\ idx = 2
  /\ Len(all_files) = 2
  /\ wrote[1] # None /\ summaryFailed[1] /\ summaryCalls[1] = 1
  /\ fs[SummaryPath(all_files[1])] = "Summary could not be generated."

\* C11 as claimed: when the probe returns None, meeting.py main treats the
\* item as short: the chunk list is the original file and the chunk loop
\* is entered.
C11_UnknownDurationIsShort ==
  [][(pc = "m_probe" /\ duration_sec' = None) =>
       /\ chunk_paths' = << MediaPath(Stem) >>
       /\ pc' = "m_chunks"]_vars

\* C11 amended: when the probe returns None, meeting.py main skips the
\* item: no chunk list is built, nothing is uploaded or written, and the
\* driver is at the next item.
C11_UnknownDurationSkipsItem ==
  /\ [][(pc = "m_probe" /\ duration_sec' = None) =>
          /\ pc' = "m_for" /\ idx' = idx + 1
          /\ chunk_paths' = << >>
          /\ fs' = fs /\ wrote' = wrote
          /\ remoteFiles' = remoteFiles
          /\ summaryCalls' = summaryCalls]_vars
  /\ [](pc \in {"c_upload", "c_wait", "c_generate"} => chunk_paths # << >>)

\* the first item was probed, its duration is unknown, and the driver is
\* at the second item without a chunk list, a split or a transcript
C11_Witness ==
  /\ script = "meeting" /\ pc = "m_for" /\ idx = 2
  /\ called[1] /\ reached[1] = Some(None)
  /\ chunk_paths = << >> /\ splitCalls = 0
  /\ wrote[1] = None /\ Found(fs, all_files[1]) = None

\* C12: in meeting.py, whenever the driver is between items or has ended
\* the run, the temporary chunk directory holds no chunk file.
C12_ChunkDirPurgedAfterItem ==
  (script = "meeting" /\ pc \in {"m_for", "done"}) => chunkDir = {}

\* C13: in transcribe.py a failure of ffmpeg ends the processing of that
\* file only: when the run is over, every listed file has been begun.
C13_FfmpegFailureSkipsFileOnly ==
  (script = "transcribe" /\ pc \in {"done", "halted"}) =>
    \A k \in 1..Len(all_files) : reached[k] # None

\* C14: in gemini.py the run ends early only after quota exhaustion (or
\* when delete_file itself raised in the finally block): an exception of
\* the probe, upload, poll, generation or output writing, a FAILED status
\* and an empty response all lead through the finally block to the next
\* file.  The file index never decreases and moves one file at a time,
\* a file is begun only if it was not begun before, and a run that ends
\* normally has begun every file.
C14_ErrorsContainedInOrder ==
  /\ [](script = "gemini" /\ pc = "halted" =>
          \/ quotaSeen
          \/ delCalls # << >> /\ delCalls[1] \in remoteFiles)
  /\ [](script = "gemini" /\ pc = "done" =>
          \A k \in Positions : reached[k] # None)
  /\ [][script = "gemini" =>
          /\ idx' \in {idx, idx + 1}
          /\ all_files' = all_files
          /\ \A k \in Positions :
               reached[k] # None => reached'[k] = reached[k]
          /\ (pc = "g_finally" /\ exc = "none" /\ remoteFiles' = {}) =>
               (pc' = "g_for" /\ idx' = idx + 1)]_vars

\* three files: the first ended in the FAILED state, the second left an
\* empty output behind when writing raised, and the driver begins the third
C14_Witness ==
  /\ script = "gemini" /\ pc = "g_probe" /\ idx = 3 /\ ~quotaSeen
  /\ called[1] /\ wrote[1] = None
  /\ wrote[2] = Some("")
  /\ reached[3] = Some(None)

\* C15: in meeting.py main, when chunk i of N is being uploaded or
\* transcribed exactly i-1 sixty-second delays have been taken for the
\* item, whatever the earlier chunks returned; when the chunk loop is over
\* exactly N-1 have been taken (none for one chunk or an empty list).
C15_DelayBetweenChunks ==
  /\ (script = "meeting" /\
      pc \in {"c_upload", "c_wait", "c_generate", "c_finally", "m_part"}) =>
       (i \in 1..Len(chunk_paths) /\ sleeps = i - 1)
  /\ (script = "meeting" /\ pc = "m_join") =>
       sleeps = (IF chunk_paths = << >> THEN 0 ELSE Len(chunk_paths) - 1)

\* two chunks, the first failed, the loop is over: one delay was taken
C15_Witness ==
  /\ script = "meeting" /\ pc = "m_join"
  /\ Len(chunk_paths) = 2 /\ Len(chunkResults) = 2
  /\ chunkResults[1] = None
  /\ sleeps = 1

\* the texts of the chunks that returned one, in chunk order
RECURSIVE TextsOf(_)
TextsOf(rs) ==
  IF rs = << >> THEN << >>
  ELSE IF Head(rs) = None THEN TextsOf(Tail(rs))
       ELSE << Val(Head(rs)) >> \o TextsOf(Tail(rs))

\* C16: in transcribe.py process_file a chunk is sent at most twice; the
\* second request is sent only after a first one that raised
\* LocalProtocolError and was followed by the one-second sleep; a chunk is
\* left with a text after a request that returned one, and without a text
\* after another exception or two transport errors; every chunk of the
\* list has been attempted when the transcript is written; pieces are the
\* texts of the chunks that returned one, one per chunk, in chunk order.
C16_AtMostOneRetryPerChunk ==
  script = "transcribe" =>
    /\ Len(tries) <= 2
    /\ pc = "t_try" =>
         /\ i \in 1..Len(chunks)
         /\ Len(tries) = attempt - 1
         /\ Len(chunkResults) = i - 1
         /\ \A j \in 1..Len(tries) : tries[j] = Tried("transport", TRUE)
    /\ (pc = "t_chunks" /\ i > 1) =>
         /\ tries # << >>
         /\ Len(chunkResults) = i - 1
         /\ \A j \in 1..(Len(tries) - 1) : tries[j] = Tried("transport", TRUE)
         /\ (chunkResults[i - 1] # None) <=>
               (tries[Len(tries)].outcome = "text")
         /\ tries[Len(tries)].outcome = "transport" => Len(tries) = 2
    /\ pc = "t_write" => Len(chunkResults) = Len(chunks)
    /\ pieces = TextsOf(chunkResults)
    /\ Len(pieces) <= Len(chunkResults)

\* three chunks: the first was given up after two transport errors, the
\* second after another exception, the third returned a text at the
\* second request
C16_Witness ==
  /\ script = "transcribe" /\ pc = "t_chunks"
  /\ Len(chunks) = 3 /\ i = 4
  /\ chunkResults[1] = None /\ chunkResults[2] = None
  /\ tries = << Tried("transport", TRUE), Tried("text", FALSE) >>
  /\ pieces = << Val(chunkResults[3]) >>

\* the readings of time.time() an output name of transcribe.py can carry
Stamps == 0..(MaxClock + 1)

\* C17: in transcribe.py the transcripts of one input stem all have the
\* same path, and an input whose transcript exists when process_file
\* begins it gets no ffmpeg or transcription call and nothing written.
C17_FixedOutputPathSkipsRerun ==
  script = "transcribe" =>
    /\ \A s \in Stems : \A t, u \in Stamps :
         (Exists(fs, OutTxt(s, t)) /\ Exists(fs, OutTxt(s, u))) => t = u
    /\ \A k \in Positions :
         (\E t \in Stamps :
            /\ Exists(fs, OutTxt(all_files[k], t))
            /\ fs[OutTxt(all_files[k], t)] = EARLIER) =>
           (~called[k] /\ wrote[k] = None)

\* C18: in compare.py, when both outputs of the file taken were left by an
\* earlier run, the run makes no upload, no poll and no generation call
\* (the outputs then keep their content).
C18_NoNetworkWhenOutputsExist ==
  (/\ script = "compare" /\ all_files # << >>
   /\ Exists(fs, SimplePath(all_files[1]))
   /\ fs[SimplePath(all_files[1])] = EARLIER
   /\ Exists(fs, TimestampPath(all_files[1]))
   /\ fs[TimestampPath(all_files[1])] = EARLIER) =>
    (~called[1] /\ upHandle = None /\ polls = 0 /\ remoteFiles = {})

\* C19: in compare.py, when run_comparison has returned, the remote service
\* holds no file the run uploaded.
C19_UploadDeletedOnReturn ==
  (script = "compare" /\ pc = "done") => remoteFiles = {}

\* requests to the file service and the model, as steps
Observed(st) ==
  media_file_for_api # None /\ Val(media_file_for_api).state = st
GenRequest ==
  \/ CGenerate
  \/ GGenerate
  \/ KSimple /\ ~Exists(fs, SimplePath(Stem))
  \/ KDetailed /\ ~Exists(fs, TimestampPath(Stem))
UploadRequest == CUpload \/ GUpload \/ KUpload
PollRequest == CPoll \/ GPoll \/ KPoll
DeleteRequest == (CFinally \/ GFinally) /\ delCalls' # delCalls

\* C20 as claimed: a generation request is issued only when the last
\* status observed for the upload is neither PROCESSING nor FAILED; while
\* the last status observed is PROCESSING the only requests issued are
\* polls; after FAILED was observed no generation request is issued.
C20_OnlyPollsWhileProcessing ==
  /\ [][GenRequest => Observed("ACTIVE")]_vars
  /\ [][Observed("PROCESSING") =>
          ~(GenRequest \/ UploadRequest \/ DeleteRequest)]_vars
  /\ [][Observed("FAILED") => ~GenRequest]_vars

\* C20 amended: as above, except that while the last status observed is
\* PROCESSING one more request can be issued besides polls: the
\* delete_file of the finally block of meeting.py and gemini.py, once,
\* after a poll raised.
C20_GenerateOnlyWhenActive ==
  /\ [][GenRequest => Observed("ACTIVE")]_vars
  /\ [][Observed("PROCESSING") => ~(GenRequest \/ UploadRequest)]_vars
  /\ [][(Observed("PROCESSING") /\ DeleteRequest) =>
          /\ pc \in {"c_finally", "g_finally"}
          /\ polls >= 1
          /\ delCalls = << >>]_vars
  /\ [][Observed("FAILED") => ~GenRequest]_vars

\* compare.py: the upload was PROCESSING, one poll saw it ACTIVE, and the
\* detailed prompt was answered and written
C20_Witness ==
  /\ script = "compare" /\ pc = "done"
  /\ polls = 1 /\ Observed("ACTIVE")
  /\ Exists(fs, TimestampPath(all_files[1]))
  /\ fs[TimestampPath(all_files[1])] = TextOf(MediaPath(all_files[1]))

\* item k has been begun and the driver has left it
Settled(k) == reached[k] # None /\ (idx > k \/ pc = "done")

\* C21: a run of meeting.py main eventually ends, and when it has ended
\* every item of the list has been begun and left: skipped because its
\* transcript existed, skipped or failed, or done.
C21_RunEndsWithEveryItemSettled ==
  <>(pc \in {"done", "halted"} /\ \A k \in Positions : Settled(k))

\* termination alone: the run of meeting.py main eventually ends
MeetingRunEnds == <>(pc \in {"done", "halted"})

\* C22: in meeting.py main, transcribe_chunk is entered for chunk i when
\* exactly the chunks 1..i-1 have returned, and with nothing left on the
\* remote service; the chunk index changes only by one, after a chunk
\* returned (or back to 1 for the next item); and the chunk loop ends only
\* when every chunk of the list has returned, whatever the chunks returned.
C22_ChunksInSequence ==
  /\ [](script = "meeting" /\ pc = "c_upload" =>
          /\ i \in 1..Len(chunk_paths)
          /\ Len(chunkResults) = i - 1
          /\ remoteFiles = {})
  /\ [](script = "meeting" /\ pc = "m_join" =>
          Len(chunkResults) = Len(chunk_paths))
  /\ [][(script = "meeting" /\ i' # i) =>
          \/ pc = "m_part" /\ i' = i + 1
                /\ Len(chunkResults') = Len(chunkResults) + 1
          \/ pc = "m_for" /\ i' = 1]_vars

\* two chunks: the first returned None, the second was uploaded, returned
\* a text and was deleted
C22_Witness ==
  /\ script = "meeting" /\ pc = "m_chunks" /\ idx = 1
  /\ Len(chunk_paths) = 2 /\ i = 3
  /\ chunkResults[1] = None /\ chunkResults[2] # None
  /\ delCalls = << "files/1-2" >> /\ remoteFiles = {}

\* C23: in meeting.py and gemini.py the remote service never holds more
\* than one file uploaded by the run, and holds none when the run has
\* ended normally.
C23_AtMostOneRemoteFile ==
  /\ Cardinality(remoteFiles) <= 1
  /\ pc = "done" => remoteFiles = {}

\* a run over two files, both uploaded and transcribed, has ended normally
\* with nothing left on the service
C23_Witness ==
  /\ pc = "done" /\ Len(all_files) = 2
  /\ wrote[1] # None /\ wrote[2] # None
  /\ called[1] /\ called[2]
  /\ remoteFiles = {}

\* C24: in gemini.py transcribe_file, once the probe has returned, the
\* smart wait is max(30, floor(duration / 10)) seconds when the probe
\* returned a duration (in ms here), and 360 seconds exactly when it
\* returned None; the next step is the upload in both cases.
C24_SmartWait ==
  (script = "gemini" /\ pc \in {"g_upload", "g_wait", "g_generate"}) =>
    initial_wait_seconds =
      (IF duration_sec = None THEN 360
       ELSE Max(30, Val(duration_sec) \div 10000))

\* C25: in gemini.py an output file is created only by a generation that
\* returned a text: every output on disk is one an earlier run left or the
\* text generated for its item, and whatever an item of this run wrote is
\* that text; an item that failed leaves no output behind.
C25_OutputOnlyOnSuccess ==
  script = "gemini" =>
    /\ \A s \in Stems :
         Exists(fs, OutputPath(s)) =>
           fs[OutputPath(s)] \in {EARLIER, TextOf(MediaPath(s))}
    /\ \A k \in Positions :
         wrote[k] # None => wrote[k] = Some(TextOf(MediaPath(all_files[k])))

\* the segment commands split_media has run, by task
Invoked(task) == \E j \in 1..Len(commands) : commands[j].task = task

====
